---- MODULE Spec2Model ----
(***************************************************************************)
(* A model of dns/src/record/loc.rs: the decoder of the DNS LOC record     *)
(* (RFC 1876), LOC::read, the coordinate conversion Position::from_u32     *)
(* and the Display implementations of Position and Direction.             *)
(*                                                                         *)
(* A u32 is kept as a pair <<hi, lo>> of 16-bit limbs, so that the 32-bit  *)
(* arithmetic of from_u32 is carried out at its real width, with its real  *)
(* overflow.                                                               *)
(***************************************************************************)
EXTENDS Integers, Sequences, FiniteSets, TLC

(***************************************************************************)
(* Bounds of the model.                                                    *)
(***************************************************************************)
\* The longest buffer handed to LOC::read.
MaxBufLen == 19
\* The number of from_u32 frames the thread's stack holds before the
\* process dies of a stack overflow.
MaxStack == 4

(***************************************************************************)
(* u32 arithmetic.                                                         *)
(***************************************************************************)
Limb == 2 ^ 16

\* The literal 0x_8000_0000.
HALF == <<Limb \div 2, 0>>

\* a >= b on u32.
GeU32(a, b) == a[1] > b[1] \/ (a[1] = b[1] /\ a[2] >= b[2])

\* a + b: the wrapped sum, and whether the true sum left the u32 range.
AddU32(a, b) ==
    LET lo == a[2] + b[2]
        hi == a[1] + b[1] + (lo \div Limb)
    IN  [val |-> <<hi % Limb, lo % Limb>>, overflow |-> hi >= Limb]

\* a - b: the wrapped difference, and whether the true one is negative.
SubU32(a, b) ==
    LET lo == a[2] - b[2]
        hi == a[1] - b[1] - (IF lo < 0 THEN 1 ELSE 0)
    IN  [val |-> <<hi % Limb, lo % Limb>>, overflow |-> hi < 0]

\* a * k for a small k: the wrapped product, and whether it overflowed.
MulU32(a, k) ==
    LET lo == a[2] * k
        hi == a[1] * k + (lo \div Limb)
    IN  [val |-> <<hi % Limb, lo % Limb>>, overflow |-> hi >= Limb]

\* a / d and a % d for a u32 a and a divisor d < 2^15 (long division by
\* limbs; the quotient of a division by 1000 fits an integer of the model).
DivU32(a, d) == (a[1] \div d) * Limb + (((a[1] % d) * Limb + a[2]) \div d)
RemU32(a, d) == ((a[1] % d) * Limb + a[2]) % d

(***************************************************************************)
(* The values of the program.                                              *)
(***************************************************************************)
Direction == {"North", "East", "South", "West"}

\* struct Position
MkPosition(degrees, arcminutes, arcseconds, milliarcseconds, direction) ==
    [degrees |-> degrees, arcminutes |-> arcminutes, arcseconds |-> arcseconds,
     milliarcseconds |-> milliarcseconds, direction |-> direction]

\* struct Size, from the size byte
MkSize(size_bits) ==
    [base |-> size_bits \div 16, power_of_ten |-> size_bits % 16]

\* The four bytes of a u32 in big-endian order, and back.
BytesOfU32(x) == <<x[1] \div 256, x[1] % 256, x[2] \div 256, x[2] % 256>>
U32OfBytes(b) == <<b[1] * 256 + b[2], b[3] * 256 + b[4]>>

VARIABLES
    overflow_checks,  \* the build: TRUE panics on overflow, FALSE wraps
    entry,            \* which function the caller calls: "read", "from_u32"
    stated_length,    \* LOC::read's first argument
    buf,              \* the bytes under the cursor c
    c,                \* the position of the cursor c
    reads,            \* the reads made of the cursor so far, in order
    pc,               \* where the caller / LOC::read stands
    locals,           \* the local variables of LOC::read bound so far
    arg,              \* the arguments of the outermost from_u32 call
    stack,            \* the frames of from_u32, innermost last
    ret,              \* <<p>> when a from_u32 frame has just returned p
    result,           \* what the call of LOC::read came to
    text              \* <<s>> when Position's to_string has produced s

vars == <<overflow_checks, entry, stated_length, buf, c, reads, pc, locals,
          arg, stack, ret, result, text>>

(***************************************************************************)
(* Position::from_u32, one frame of its recursion at a time.               *)
(***************************************************************************)
Frame(input, vertical) == [input |-> input, vertical |-> vertical]

Top == stack[Len(stack)]
Pop == SubSeq(stack, 1, Len(stack) - 1)

\* Decompose with the seconds left unreduced: total_arcseconds taken for
\* arcseconds.
Decompose_NoModulo(input, vertical) ==
    LET milliarcseconds  == RemU32(input, 1000)
        total_arcseconds == DivU32(input, 1000)
        arcseconds       == total_arcseconds
        total_arcminutes == total_arcseconds \div 60
        arcminutes       == total_arcminutes % 60
        degrees          == total_arcminutes \div 60
        direction        == IF vertical THEN "North" ELSE "East"
    IN  MkPosition(degrees, arcminutes, arcseconds, milliarcseconds, direction)

\* The then-branch once 0x_8000_0000 has been subtracted from input.
Decompose(input, vertical) ==
    LET milliarcseconds  == RemU32(input, 1000)
        total_arcseconds == DivU32(input, 1000)
        arcseconds       == total_arcseconds % 60
        total_arcminutes == total_arcseconds \div 60
        arcminutes       == total_arcminutes % 60
        degrees          == total_arcminutes \div 60
        direction        == IF vertical THEN "North" ELSE "East"
    IN  MkPosition(degrees, arcminutes, arcseconds, milliarcseconds, direction)

\* The argument of the recursive call, input + (0x_8000_0000_u32 - input) * 2,
\* and whether one of its three operations overflowed.
ReflectArg(input) ==
    LET d == SubU32(HALF, input)
        m == MulU32(d.val, 2)
        a == AddU32(input, m.val)
    IN  [val |-> a.val, overflow |-> d.overflow \/ m.overflow \/ a.overflow]

\* The direction the else-branch writes over the callee's.
Reflected(vertical) == IF vertical THEN "South" ELSE "West"

InCall == pc \in {"from_u32", "latitude_call", "longitude_call"}

\* input >= 0x_8000_0000: the frame computes its Position and returns it.
FromU32Direct ==
    /\ InCall /\ stack # <<>> /\ ret = <<>>
    /\ GeU32(Top.input, HALF)
    /\ ret' = <<Decompose(SubU32(Top.input, HALF).val, Top.vertical)>>
    /\ stack' = Pop
    /\ UNCHANGED <<overflow_checks, entry, stated_length, buf, c, reads, pc,
                   locals, arg, result, text>>

\* input < 0x_8000_0000: the frame calls from_u32 on the reflected input.
FromU32Reflect ==
    /\ InCall /\ stack # <<>> /\ ret = <<>>
    /\ ~GeU32(Top.input, HALF)
    /\ ~(ReflectArg(Top.input).overflow /\ overflow_checks)
    /\ Len(stack) < MaxStack
    /\ stack' = Append(stack, Frame(ReflectArg(Top.input).val, Top.vertical))
    /\ UNCHANGED <<overflow_checks, entry, stated_length, buf, c, reads, pc,
                   locals, arg, ret, result, text>>

\* The same, in a build with overflow checks, when the arithmetic overflows:
\* the thread panics.
FromU32Panic ==
    /\ InCall /\ stack # <<>> /\ ret = <<>>
    /\ ~GeU32(Top.input, HALF)
    /\ ReflectArg(Top.input).overflow /\ overflow_checks
    /\ pc' = "crashed"
    /\ result' = [kind |-> "Panic"]
    /\ UNCHANGED <<overflow_checks, entry, stated_length, buf, c, reads,
                   locals, arg, stack, ret, text>>

\* The same, when the stack has no room for one more frame.
FromU32StackOverflow ==
    /\ InCall /\ stack # <<>> /\ ret = <<>>
    /\ ~GeU32(Top.input, HALF)
    /\ ~(ReflectArg(Top.input).overflow /\ overflow_checks)
    /\ Len(stack) >= MaxStack
    /\ pc' = "crashed"
    /\ result' = [kind |-> "StackOverflow"]
    /\ UNCHANGED <<overflow_checks, entry, stated_length, buf, c, reads,
                   locals, arg, stack, ret, text>>

\* The callee has returned pos: the frame sets pos.direction and returns pos.
FromU32Return ==
    /\ InCall /\ stack # <<>> /\ ret # <<>>
    /\ ret' = <<[ret[1] EXCEPT !.direction = Reflected(Top.vertical)]>>
    /\ stack' = Pop
    /\ UNCHANGED <<overflow_checks, entry, stated_length, buf, c, reads, pc,
                   locals, arg, result, text>>

(***************************************************************************)
(* Display for Position and Direction.  A text is the sequence of its      *)
(* characters; "deg", "prime" and "dprime" stand for the characters        *)
(* U+00B0, U+2032 and U+2033.                                              *)
(***************************************************************************)
DigitChars == <<"0", "1", "2", "3", "4", "5", "6", "7", "8", "9">>

\* "{}" of an unsigned integer.
RECURSIVE Decimal(_)
Decimal(n) ==
    IF n < 10 THEN <<DigitChars[n + 1]>>
    ELSE Append(Decimal(n \div 10), DigitChars[(n % 10) + 1])

\* "{:0w}": zeros on the left up to a width of w.
RECURSIVE ZeroPad(_, _)
ZeroPad(s, w) == IF Len(s) >= w THEN s ELSE ZeroPad(<<"0">> \o s, w)

DirectionToString(d) ==
    CASE d = "North" -> <<"N">>
      [] d = "East"  -> <<"E">>
      [] d = "South" -> <<"S">>
      [] d = "West"  -> <<"W">>

\* PositionToString with "{}" in place of "{:03}".
PositionToString_NoPad(p) ==
    Decimal(p.degrees) \o <<"deg">> \o Decimal(p.arcminutes) \o <<"prime">>
    \o Decimal(p.arcseconds)
    \o (IF p.milliarcseconds # 0
        THEN <<".">> \o Decimal(p.milliarcseconds)
        ELSE <<>>)
    \o <<"dprime", " ">> \o DirectionToString(p.direction)

PositionToString(p) ==
    Decimal(p.degrees) \o <<"deg">> \o Decimal(p.arcminutes) \o <<"prime">>
    \o Decimal(p.arcseconds)
    \o (IF p.milliarcseconds # 0
        THEN <<".">> \o ZeroPad(Decimal(p.milliarcseconds), 3)
        ELSE <<>>)
    \o <<"dprime", " ">> \o DirectionToString(p.direction)

\* The caller of from_u32 formats the Position it got (position_test).
to_string ==
    /\ pc = "from_u32" /\ stack = <<>> /\ ret # <<>>
    /\ text' = <<PositionToString(ret[1])>>
    /\ pc' = "done"
    /\ UNCHANGED <<overflow_checks, entry, stated_length, buf, c, reads,
                   locals, arg, stack, ret, result>>

(***************************************************************************)
(* The cursor over the buffer.                                             *)
(***************************************************************************)
\* Whether n more bytes can be read, and those bytes.
Avail(n) == c + n <= Len(buf)
Take(n) == SubSeq(buf, c + 1, c + n)

\* One successful read of the cursor, as the log keeps it.
ReadOf(field, n) == [field |-> field, at |-> c, n |-> n]

\* A read that finds too few bytes: the ? operator returns WireError::IO.
\* Where a failed read_exact leaves the cursor depends on the version of the
\* standard library: where it was, or at the end of the buffer.
IOError ==
    /\ ~(pc \in {"done", "crashed"})
    /\ result' = [kind |-> "IO"]
    /\ pc' = "done"
    /\ c' \in {c, Len(buf)}
    /\ UNCHANGED <<overflow_checks, entry, stated_length, buf, reads, locals,
                   arg, stack, ret, text>>

(***************************************************************************)
(* LOC::read.                                                              *)
(***************************************************************************)
\* ReadVersion with the length checked before the version.
ReadVersion_LengthFirst ==
    /\ pc = "version"
    /\ IF Avail(1)
       THEN /\ c' = c + 1
            /\ reads' = Append(reads, ReadOf("version", 1))
            /\ locals' = locals @@ ("version" :> Take(1)[1])
            /\ IF stated_length # 16
               THEN /\ result' = [kind |-> "WrongRecordLength",
                                  stated_length |-> stated_length,
                                  mandated_length |-> <<"Exactly", 16>>]
                    /\ pc' = "done"
               ELSE IF Take(1)[1] # 0
               THEN /\ result' = [kind |-> "WrongVersion",
                                  stated_version |-> Take(1)[1],
                                  maximum_supported_version |-> 0]
                    /\ pc' = "done"
               ELSE /\ pc' = "check_length"
                    /\ UNCHANGED result
            /\ UNCHANGED <<overflow_checks, entry, stated_length, buf, arg,
                           stack, ret, text>>
       ELSE IOError

\* let version = c.read_u8()?; if version != 0 { return Err(WrongVersion) }
ReadVersion ==
    /\ pc = "version"
    /\ IF Avail(1)
       THEN /\ c' = c + 1
            /\ reads' = Append(reads, ReadOf("version", 1))
            /\ locals' = locals @@ ("version" :> Take(1)[1])
            /\ IF Take(1)[1] # 0
               THEN /\ result' = [kind |-> "WrongVersion",
                                  stated_version |-> Take(1)[1],
                                  maximum_supported_version |-> 0]
                    /\ pc' = "done"
               ELSE /\ pc' = "check_length"
                    /\ UNCHANGED result
            /\ UNCHANGED <<overflow_checks, entry, stated_length, buf, arg,
                           stack, ret, text>>
       ELSE IOError

\* CheckLength that lets a stated length above 16 through.
CheckLength_TooShortOnly ==
    /\ pc = "check_length"
    /\ IF stated_length < 16
       THEN /\ result' = [kind |-> "WrongRecordLength",
                          stated_length |-> stated_length,
                          mandated_length |-> <<"Exactly", 16>>]
            /\ pc' = "done"
       ELSE /\ pc' = "size"
            /\ UNCHANGED result
    /\ UNCHANGED <<overflow_checks, entry, stated_length, buf, c, reads,
                   locals, arg, stack, ret, text>>

\* if stated_length != 16 { return Err(WrongRecordLength) }
CheckLength ==
    /\ pc = "check_length"
    /\ IF stated_length # 16
       THEN /\ result' = [kind |-> "WrongRecordLength",
                          stated_length |-> stated_length,
                          mandated_length |-> <<"Exactly", 16>>]
            /\ pc' = "done"
       ELSE /\ pc' = "size"
            /\ UNCHANGED result
    /\ UNCHANGED <<overflow_checks, entry, stated_length, buf, c, reads,
                   locals, arg, stack, ret, text>>

\* let size_bits = c.read_u8()?; let size = Size { base, power_of_ten };
ReadSize ==
    /\ pc = "size"
    /\ IF Avail(1)
       THEN /\ c' = c + 1
            /\ reads' = Append(reads, ReadOf("size", 1))
            /\ locals' = locals @@ ("size" :> MkSize(Take(1)[1]))
            /\ pc' = "horizontal_precision"
            /\ UNCHANGED <<overflow_checks, entry, stated_length, buf, arg,
                           stack, ret, result, text>>
       ELSE IOError

\* let horizontal_precision = c.read_u8()?;
ReadHorizontalPrecision ==
    /\ pc = "horizontal_precision"
    /\ IF Avail(1)
       THEN /\ c' = c + 1
            /\ reads' = Append(reads, ReadOf("horizontal_precision", 1))
            /\ locals' = locals @@ ("horizontal_precision" :> Take(1)[1])
            /\ pc' = "vertical_precision"
            /\ UNCHANGED <<overflow_checks, entry, stated_length, buf, arg,
                           stack, ret, result, text>>
       ELSE IOError

\* let vertical_precision = c.read_u8()?;
ReadVerticalPrecision ==
    /\ pc = "vertical_precision"
    /\ IF Avail(1)
       THEN /\ c' = c + 1
            /\ reads' = Append(reads, ReadOf("vertical_precision", 1))
            /\ locals' = locals @@ ("vertical_precision" :> Take(1)[1])
            /\ pc' = "latitude"
            /\ UNCHANGED <<overflow_checks, entry, stated_length, buf, arg,
                           stack, ret, result, text>>
       ELSE IOError

\* let latitude_num = c.read_u32::<BigEndian>()?;
\* and the call Position::from_u32(latitude_num, true)
ReadLatitude ==
    /\ pc = "latitude"
    /\ IF Avail(4)
       THEN /\ c' = c + 4
            /\ reads' = Append(reads, ReadOf("latitude", 4))
            /\ locals' = locals @@ ("latitude_num" :> U32OfBytes(Take(4)))
            /\ arg' = <<Frame(U32OfBytes(Take(4)), TRUE)>>
            /\ stack' = <<Frame(U32OfBytes(Take(4)), TRUE)>>
            /\ pc' = "latitude_call"
            /\ UNCHANGED <<overflow_checks, entry, stated_length, buf, ret,
                           result, text>>
       ELSE IOError

\* let latitude = <what the call returned>;
BindLatitude ==
    /\ pc = "latitude_call" /\ stack = <<>> /\ ret # <<>>
    /\ locals' = locals @@ ("latitude" :> ret[1])
    /\ ret' = <<>>
    /\ pc' = "longitude"
    /\ UNCHANGED <<overflow_checks, entry, stated_length, buf, c, reads, arg,
                   stack, result, text>>

\* let longitude_num = c.read_u32::<BigEndian>()?;
\* and the call Position::from_u32(longitude_num, false)
ReadLongitude ==
    /\ pc = "longitude"
    /\ IF Avail(4)
       THEN /\ c' = c + 4
            /\ reads' = Append(reads, ReadOf("longitude", 4))
            /\ locals' = locals @@ ("longitude_num" :> U32OfBytes(Take(4)))
            /\ arg' = <<Frame(U32OfBytes(Take(4)), FALSE)>>
            /\ stack' = <<Frame(U32OfBytes(Take(4)), FALSE)>>
            /\ pc' = "longitude_call"
            /\ UNCHANGED <<overflow_checks, entry, stated_length, buf, ret,
                           result, text>>
       ELSE IOError

\* let longitude = <what the call returned>;
BindLongitude ==
    /\ pc = "longitude_call" /\ stack = <<>> /\ ret # <<>>
    /\ locals' = locals @@ ("longitude" :> ret[1])
    /\ ret' = <<>>
    /\ pc' = "altitude"
    /\ UNCHANGED <<overflow_checks, entry, stated_length, buf, c, reads, arg,
                   stack, result, text>>

\* ReadAltitude with read_u16 in place of read_u32.
ReadAltitude_U16 ==
    /\ pc = "altitude"
    /\ IF Avail(2)
       THEN /\ c' = c + 2
            /\ reads' = Append(reads, ReadOf("altitude", 2))
            /\ locals' = locals @@ ("altitude" :> <<0, Take(2)[1] * 256 + Take(2)[2]>>)
            /\ result' = [kind |-> "Ok",
                          loc |-> [size |-> locals.size,
                                   horizontal_precision |->
                                       locals.horizontal_precision,
                                   vertical_precision |->
                                       locals.vertical_precision,
                                   latitude |-> locals.latitude,
                                   longitude |-> locals.longitude,
                                   altitude |->
                                       <<0, Take(2)[1] * 256 + Take(2)[2]>>]]
            /\ pc' = "done"
            /\ UNCHANGED <<overflow_checks, entry, stated_length, buf, arg,
                           stack, ret, text>>
       ELSE IOError

\* let altitude = c.read_u32::<BigEndian>()?; Ok(Self { ... })
ReadAltitude ==
    /\ pc = "altitude"
    /\ IF Avail(4)
       THEN /\ c' = c + 4
            /\ reads' = Append(reads, ReadOf("altitude", 4))
            /\ locals' = locals @@ ("altitude" :> U32OfBytes(Take(4)))
            /\ result' = [kind |-> "Ok",
                          loc |-> [size |-> locals.size,
                                   horizontal_precision |->
                                       locals.horizontal_precision,
                                   vertical_precision |->
                                       locals.vertical_precision,
                                   latitude |-> locals.latitude,
                                   longitude |-> locals.longitude,
                                   altitude |-> U32OfBytes(Take(4))]]
            /\ pc' = "done"
            /\ UNCHANGED <<overflow_checks, entry, stated_length, buf, arg,
                           stack, ret, text>>
       ELSE IOError

(***************************************************************************)
(* The inputs: the calls the tests of the file make, over more values.     *)
(***************************************************************************)
\* u32 values around 0, 2^31 and 2^32, and the coordinates of the tests.
HiSamples == {0, 1, 32713, 32760, 32767, 32768, 32769, 32822, 35597, 65535}
LoSamples == {0, 1, 10, 99, 100, 999, 1000, 4480, 11404, 61056, 64536, 64677, 65535}
RawSamples == HiSamples \X LoSamples

\* What the fields of a record under LOC::read are drawn from.
VersionSamples == {0, 1, 128}
HeadSamples == {<<50, 0, 0>>, <<0, 255, 19>>, <<255, 18, 255>>}
LatitudeSamples == {<<35597, 11404>>, <<0, 0>>, <<32767, 65535>>, <<0, 1>>}
LongitudeSamples == {<<32760, 64677>>, <<0, 0>>, <<32768, 0>>, <<65535, 65535>>}
AltitudeSamples == {<<152, 38528>>, <<65535, 65535>>}
StatedLengths == {0, 2, 4, 16, 19, 65535}

\* The i-th byte that follows the 16 bytes of a record.
Extra(i) == <<18, 52, 86>>[((i - 1) % 3) + 1]

\* A 16-byte record followed by other bytes, cut to n bytes.
Buffer(version, head, lat, lon, alt, n) ==
    SubSeq(<<version>> \o head \o BytesOfU32(lat) \o BytesOfU32(lon)
           \o BytesOfU32(alt) \o [i \in 1 .. (MaxBufLen - 16) |-> Extra(i)],
           1, n)

Buffers ==
    {Buffer(v, h, lat, lon, alt, n) :
        v \in VersionSamples, h \in HeadSamples, lat \in LatitudeSamples,
        lon \in LongitudeSamples, alt \in AltitudeSamples, n \in 0 .. MaxBufLen}

\* A call of Position::from_u32(raw, vertical).to_string().
InitFromU32 ==
    /\ entry = "from_u32"
    /\ \E raw \in RawSamples, vertical \in BOOLEAN :
          /\ arg = <<Frame(raw, vertical)>>
          /\ stack = <<Frame(raw, vertical)>>
    /\ stated_length = 0 /\ buf = <<>>
    /\ pc = "from_u32"

\* A call of LOC::read(stated_length, &mut Cursor::new(buf)).
InitRead ==
    /\ entry = "read"
    /\ stated_length \in StatedLengths
    /\ buf \in Buffers
    /\ arg = <<>> /\ stack = <<>>
    /\ pc = "version"

Init ==
    /\ overflow_checks \in BOOLEAN
    /\ InitFromU32 \/ InitRead
    /\ c = 0 /\ reads = <<>> /\ locals = <<>> /\ ret = <<>> /\ text = <<>>
    /\ result = [kind |-> "Pending"]

Next ==
    \/ FromU32Direct
    \/ FromU32Reflect
    \/ FromU32Panic
    \/ FromU32StackOverflow
    \/ FromU32Return
    \/ to_string
    \/ ReadVersion
    \/ CheckLength
    \/ ReadSize
    \/ ReadHorizontalPrecision
    \/ ReadVerticalPrecision
    \/ ReadLatitude
    \/ BindLatitude
    \/ ReadLongitude
    \/ BindLongitude
    \/ ReadAltitude

Spec == Init /\ [][Next]_vars

(***************************************************************************)
(* What the properties speak of.                                           *)
(***************************************************************************)
\* The outermost call of from_u32 has returned to its caller.
CallReturned == arg # <<>> /\ stack = <<>> /\ ret # <<>>

\* The outermost call of from_u32 is over: it returned, or the thread died.
CallOver == arg # <<>> /\ (CallReturned \/ pc = "crashed")

\* The call of LOC::read is over.
ReadOver == entry = "read" /\ pc \in {"done", "crashed"}

\* The distance of raw from 2^31, as a u32.
Offset(raw) ==
    IF GeU32(raw, HALF) THEN SubU32(raw, HALF).val ELSE SubU32(HALF, raw).val

\* The hemisphere of raw on the axis.
Hemisphere(raw, vertical) ==
    IF GeU32(raw, HALF)
    THEN (IF vertical THEN "North" ELSE "East")
    ELSE (IF vertical THEN "South" ELSE "West")

\* The decomposition of an offset into degrees, minutes, seconds and
\* thousandths (offset div 60000 is (offset div 1000) div 60, and so on).
ClosedForm(raw, vertical) ==
    [degrees         |-> DivU32(Offset(raw), 1000) \div 3600,
     arcminutes      |-> (DivU32(Offset(raw), 1000) \div 60) % 60,
     arcseconds      |-> DivU32(Offset(raw), 1000) % 60,
     milliarcseconds |-> RemU32(Offset(raw), 1000),
     direction       |-> Hemisphere(raw, vertical)]

\* The Positions the program holds in a state.
PositionsHeld ==
    (IF ret # <<>> THEN {ret[1]} ELSE {})
    \cup {locals[f] : f \in DOMAIN locals \cap {"latitude", "longitude"}}
    \cup (IF result.kind = "Ok"
          THEN {result.loc.latitude, result.loc.longitude} ELSE {})

\* C1: Position::from_u32 is total: whatever the raw value and the axis, no
\* call of it ends in a panic or a stack overflow, and it never has more than
\* two frames on the stack (one recursive self-call).
C1_FromU32Total == pc # "crashed" /\ Len(stack) <= 2

\* C2: for every raw and both axes, from_u32 returns the Position whose
\* degrees, arcminutes, arcseconds and milliarcseconds are the closed-form
\* decomposition of the offset of raw from 2^31.
C2_ClosedForm ==
    CallOver =>
        /\ ret # <<>>
        /\ \A f \in {"degrees", "arcminutes", "arcseconds", "milliarcseconds"} :
              ret[1][f] = ClosedForm(arg[1].input, arg[1].vertical)[f]

\* C3: for every raw, from_u32(raw, true) is North when raw >= 2^31 and South
\* otherwise, and from_u32(raw, false) is East when raw >= 2^31 and West
\* otherwise.
C3_Hemisphere ==
    CallOver =>
        /\ ret # <<>>
        /\ ret[1].direction = Hemisphere(arg[1].input, arg[1].vertical)

\* C4: every Position produced by from_u32, and so every latitude and
\* longitude of a LOC, has milliarcseconds in 0..999 and arcseconds and
\* arcminutes in 0..59.
C4_FieldsInRange ==
    \A p \in PositionsHeld :
        /\ p.milliarcseconds \in 0 .. 999
        /\ p.arcseconds \in 0 .. 59
        /\ p.arcminutes \in 0 .. 59

\* A LOC has been returned whose latitude is one thousandth of an arcsecond
\* south of the equator (raw 2^31 - 1).
C4_Witness ==
    /\ result.kind = "Ok"
    /\ result.loc.latitude.direction = "South"
    /\ locals.latitude_num = <<32767, 65535>>
    /\ result.loc.latitude.milliarcseconds = 1

\* C5: when the first byte v of the buffer is not 0, LOC::read returns
\* WrongVersion{v, 0} whatever stated_length is and however few bytes follow,
\* having read the version byte and nothing else.
C5_WrongVersionFirst ==
    (entry = "read" /\ Len(buf) >= 1 /\ buf[1] # 0) =>
        \/ pc = "version"
        \/ /\ pc = "done"
           /\ result = [kind |-> "WrongVersion", stated_version |-> buf[1],
                        maximum_supported_version |-> 0]
           /\ Len(reads) = 1

\* WrongVersion{128, 0} from the version byte 0x80 and 3 more bytes, with a
\* stated length that is not 16.
C5_Witness ==
    /\ result.kind = "WrongVersion"
    /\ buf[1] = 128 /\ Len(buf) = 4 /\ stated_length = 4

\* C6: when the first byte is 0 and stated_length is not 16, LOC::read
\* returns WrongRecordLength{stated_length, Exactly(16)}, whatever the rest
\* of the buffer holds.
C6_WrongRecordLength ==
    (entry = "read" /\ Len(buf) >= 1 /\ buf[1] = 0 /\ stated_length # 16) =>
        \/ pc \in {"version", "check_length"}
        \/ /\ pc = "done"
           /\ result = [kind |-> "WrongRecordLength",
                        stated_length |-> stated_length,
                        mandated_length |-> <<"Exactly", 16>>]

\* WrongRecordLength from a buffer too short to hold a record.
C6_Witness ==
    /\ result.kind = "WrongRecordLength"
    /\ Len(buf) = 2 /\ stated_length = 2

\* C7: LOC::read ends in IO exactly when the buffer is empty, or the version
\* is 0, stated_length is 16 and the buffer has fewer than 16 bytes; and it
\* always ends in a complete LOC or one of IO, WrongVersion, WrongRecordLength.
C7_IOExactly ==
    ReadOver =>
        /\ result.kind \in {"Ok", "IO", "WrongVersion", "WrongRecordLength"}
        /\ result.kind = "IO" <=>
              \/ Len(buf) = 0
              \/ buf[1] = 0 /\ stated_length = 16 /\ Len(buf) < 16
        /\ result.kind = "Ok" =>
              DOMAIN result.loc = {"size", "horizontal_precision",
                                   "vertical_precision", "latitude",
                                   "longitude", "altitude"}

\* C8: for every buffer of at least 16 bytes whose first byte is 0, with
\* stated_length 16, LOC::read returns Ok with the size, the precisions, the
\* two Positions and the raw altitude that the bytes 2..16 encode.
C8_Decodes ==
    (ReadOver /\ Len(buf) >= 16 /\ buf[1] = 0 /\ stated_length = 16) =>
        result =
            [kind |-> "Ok",
             loc |-> [size |-> [base |-> buf[2] \div 16,
                                power_of_ten |-> buf[2] % 16],
                      horizontal_precision |-> buf[3],
                      vertical_precision |-> buf[4],
                      latitude |->
                          ClosedForm(<<buf[5] * 256 + buf[6],
                                       buf[7] * 256 + buf[8]>>, TRUE),
                      longitude |->
                          ClosedForm(<<buf[9] * 256 + buf[10],
                                       buf[11] * 256 + buf[12]>>, FALSE),
                      altitude |-> <<buf[13] * 256 + buf[14],
                                     buf[15] * 256 + buf[16]>>]]

\* The number a sequence of digit characters writes, and whether a text is
\* the plain decimal writing of n.
DigitValue(ch) == CHOOSE d \in 0 .. 9 : DigitChars[d + 1] = ch

AllDigits(s) ==
    s # <<>> /\ \A i \in 1 .. Len(s) : \E d \in 0 .. 9 : DigitChars[d + 1] = s[i]

RECURSIVE NumberOf(_)
NumberOf(s) ==
    IF s = <<>> THEN 0
    ELSE NumberOf(SubSeq(s, 1, Len(s) - 1)) * 10 + DigitValue(s[Len(s)])

Writes(s, n) ==
    AllDigits(s) /\ (Len(s) = 1 \/ s[1] # "0") /\ NumberOf(s) = n

\* How many times ch occurs in t, and where it first does.
Count(t, ch) == Cardinality({i \in 1 .. Len(t) : t[i] = ch})
IndexOf(t, ch) == CHOOSE i \in 1 .. Len(t) : t[i] = ch

LetterOf(direction) ==
    [North |-> "N", East |-> "E", South |-> "S", West |-> "W"][direction]

\* t is: degrees, degree sign, arcminutes, minute mark, arcseconds, then
\* (only with a fraction) '.' and three digits, then seconds mark, space and
\* direction letter.
TextOf(t, p, fraction) ==
    LET n == Len(t)
        e == IF fraction THEN n - 7 ELSE n - 3
    IN  /\ n >= 8
        /\ Count(t, "deg") = 1 /\ Count(t, "prime") = 1
        /\ Count(t, "dprime") = 1 /\ Count(t, " ") = 1
        /\ Count(t, ".") = (IF fraction THEN 1 ELSE 0)
        /\ t[n] = LetterOf(p.direction)
        /\ t[n - 1] = " "
        /\ t[n - 2] = "dprime"
        /\ fraction =>
              /\ n >= 12
              /\ t[n - 6] = "."
              /\ AllDigits(SubSeq(t, n - 5, n - 3))
              /\ NumberOf(SubSeq(t, n - 5, n - 3)) = p.milliarcseconds
        /\ LET d == IndexOf(t, "deg")
               m == IndexOf(t, "prime")
           IN  /\ d < m /\ m < e
               /\ Writes(SubSeq(t, 1, d - 1), p.degrees)
               /\ Writes(SubSeq(t, d + 1, m - 1), p.arcminutes)
               /\ Writes(SubSeq(t, m + 1, e), p.arcseconds)

ReadOrder ==
    << [field |-> "version", at |-> 0, n |-> 1],
       [field |-> "size", at |-> 1, n |-> 1],
       [field |-> "horizontal_precision", at |-> 2, n |-> 1],
       [field |-> "vertical_precision", at |-> 3, n |-> 1],
       [field |-> "latitude", at |-> 4, n |-> 4],
       [field |-> "longitude", at |-> 8, n |-> 4],
       [field |-> "altitude", at |-> 12, n |-> 4] >>

\* C10: LOC::read reads version, size, horizontal precision, vertical
\* precision, latitude, longitude, altitude in this order; when it returns Ok
\* the cursor has consumed exactly 16 bytes, and when it returns WrongVersion
\* or WrongRecordLength exactly 1, the version byte.
C10_Cursor ==
    entry = "read" =>
        /\ Len(reads) <= 7 /\ reads = SubSeq(ReadOrder, 1, Len(reads))
        /\ result.kind = "Ok" => c = 16 /\ reads = ReadOrder
        /\ result.kind \in {"WrongVersion", "WrongRecordLength"} =>
              c = 1 /\ Len(reads) = 1

\* Ok from a buffer that goes on after the record: the cursor stands at 16.
C10_Witness ==
    /\ result.kind = "Ok"
    /\ Len(buf) > 16 /\ c = 16

====
